---- MODULE Spec2Model ----
(***************************************************************************)
(* Model of ext/calendar/tabislamic.c: the Tabular Islamic calendar         *)
(* conversion SdnToTabIslamic, the stub TabIslamicToSdn and the month name  *)
(* table TabIslamicMonthName.                                               *)
(*                                                                          *)
(* zend_long is the 64-bit signed integer of an LP64/LLP64 build (a 32-bit  *)
(* build's values are a subset of it and take the same path).  TLC's        *)
(* integers are 32 bits wide, so a zend_long is held as four 16-bit limbs   *)
(* <<l0, l1, l2, l3>>, least significant first, the top limb signed: the    *)
(* value is l0 + l1*2^16 + l2*2^32 + l3*2^48.  An int is a plain integer    *)
(* in -2^31 .. 2^31-1.                                                      *)
(***************************************************************************)
EXTENDS Integers, Sequences, FiniteSets, TLC

VARIABLES
    pc,           \* what the caller did last: idle, walk, sdn, back, name
    sdn,          \* zend_long sdn: argument of the last SdnToTabIslamic call
    pYear,        \* int *pYear
    pMonth,       \* int *pMonth
    pDay,         \* int *pDay
    locals,       \* the locals of the last SdnToTabIslamic call
    prevCall,     \* the SdnToTabIslamic call before the last one
    firstCall,    \* the first SdnToTabIslamic call of the current run of days
    steps,        \* consecutive days converted since firstCall
    year,         \* int year:  argument of the last TabIslamicToSdn call
    month,        \* int month
    day,          \* int day
    idx,          \* index of the last TabIslamicMonthName read
    name          \* the string that read produced

vars == <<pc, sdn, pYear, pMonth, pDay, locals, prevCall, firstCall, steps,
          year, month, day, idx, name>>

----------------------------------------------------------------------------
(* Program constants *)

ISLAMIC_SDN_OFFSET == 1948440
CALENDAR_CYCLE_YEARS == 30
DAYS_PER_30_YEARS == 10631

INT_MAX == 2147483647

----------------------------------------------------------------------------
(* zend_long arithmetic on 16-bit limbs *)

Limb == 2^16
HalfLimb == 2^15

\* the zend_long holding the int v (sign-extended)
ZL(v) ==
    <<v % Limb,
      (v \div Limb) % Limb,
      IF v < 0 THEN Limb - 1 ELSE 0,
      IF v < 0 THEN -1 ELSE 0>>

ZEND_LONG_MAX == <<Limb - 1, Limb - 1, Limb - 1, HalfLimb - 1>>
ZEND_LONG_MIN == <<0, 0, 0, -HalfLimb>>

IsZendLong(a) ==
    /\ a \in Seq(Int)
    /\ Len(a) = 4
    /\ \A i \in 1..3 : a[i] \in 0..(Limb - 1)
    /\ a[4] \in (-HalfLimb)..(HalfLimb - 1)

\* a + b
zl_add(a, b) ==
    LET s0 == a[1] + b[1]
        s1 == a[2] + b[2] + (s0 \div Limb)
        s2 == a[3] + b[3] + (s1 \div Limb)
        s3 == a[4] + b[4] + (s2 \div Limb)
    IN  <<s0 % Limb, s1 % Limb, s2 % Limb, s3>>

\* a - b
zl_sub(a, b) ==
    LET d0 == a[1] - b[1]
        d1 == a[2] - b[2] + (d0 \div Limb)
        d2 == a[3] - b[3] + (d1 \div Limb)
        d3 == a[4] - b[4] + (d2 \div Limb)
    IN  <<d0 % Limb, d1 % Limb, d2 % Limb, d3>>

\* a * m, for a >= 0 and 0 <= m < 2^15
zl_mul(a, m) ==
    LET p0 == a[1] * m
        p1 == a[2] * m + (p0 \div Limb)
        p2 == a[3] * m + (p1 \div Limb)
        p3 == a[4] * m + (p2 \div Limb)
    IN  <<p0 % Limb, p1 % Limb, p2 % Limb, p3>>

\* a / d, for a >= 0 and 0 < d < 2^15 (C's truncating division)
zl_div(a, d) ==
    LET q3 == a[4] \div d
        t2 == (a[4] % d) * Limb + a[3]
        t1 == (t2 % d) * Limb + a[2]
        t0 == (t1 % d) * Limb + a[1]
    IN  <<t0 \div d, t1 \div d, t2 \div d, q3>>

\* a < b
zl_lt(a, b) ==
    \/ a[4] < b[4]
    \/ a[4] = b[4] /\ a[3] < b[3]
    \/ a[4] = b[4] /\ a[3] = b[3] /\ a[2] < b[2]
    \/ a[4] = b[4] /\ a[3] = b[3] /\ a[2] = b[2] /\ a[1] < b[1]

\* a zend_long stored into an int: the low 32 bits, two's complement
zl_int(a) ==
    (IF a[2] >= HalfLimb THEN a[2] - Limb ELSE a[2]) * Limb + a[1]

----------------------------------------------------------------------------
(* The tables *)

\* yearEndDays with the third entry mistyped (1064 for 1063)
yearEndDays_typo ==
    <<354, 709, 1064, 1417, 1772, 2126, 2481, 2835, 3189, 3544,
      3898, 4252, 4607, 4961, 5315, 5670, 6024, 6379, 6733, 7087,
      7442, 7796, 8150, 8505, 8859, 9214, 9568, 9922, 10277, 10631>>

yearEndDays ==
    <<354, 709, 1063, 1417, 1772, 2126, 2481, 2835, 3189, 3544,
      3898, 4252, 4607, 4961, 5315, 5670, 6024, 6379, 6733, 7087,
      7442, 7796, 8150, 8505, 8859, 9214, 9568, 9922, 10277, 10631>>

\* monthEndDays built from twelve 30-day months, as in the French calendar
monthEndDays_thirty ==
    <<30, 60, 90, 120, 150, 180, 210, 240, 270, 300, 330, 360>>

monthEndDays ==
    <<30, 59, 89, 118, 148, 177, 207, 236, 266, 295, 325, 355>>

TabIslamicMonthName ==
    <<"", "Vendemiaire", "Brumaire", "Frimaire", "Nivose", "Pluviose",
      "Ventose", "Germinal", "Floreal", "Prairial", "Messidor",
      "Fructidor", "Extra">>

\* tbl[i] in C (0-based); a read outside the array yields junk
ReadTable(tbl, i, junk) ==
    IF i \in 0..(Len(tbl) - 1) THEN tbl[i + 1] ELSE junk

\* what an out-of-bounds read of a zend_long array may yield
JunkLongs == {-1, 0, 10631}

----------------------------------------------------------------------------
(* getYearInCycle, getMonth *)

RECURSIVE ScanYears(_, _, _)
ScanYears(i, dayInCycle, tbl) ==
    IF i < CALENDAR_CYCLE_YEARS
    THEN IF dayInCycle < tbl[i + 1]
         THEN i + 1
         ELSE ScanYears(i + 1, dayInCycle, tbl)
    ELSE 0

\* getYearInCycle comparing with <= instead of <
RECURSIVE ScanYearsLe(_, _, _)
ScanYearsLe(i, dayInCycle, tbl) ==
    IF i < CALENDAR_CYCLE_YEARS
    THEN IF dayInCycle <= tbl[i + 1]
         THEN i + 1
         ELSE ScanYearsLe(i + 1, dayInCycle, tbl)
    ELSE 0

getYearInCycle_le(dayInCycle, tbl) == ScanYearsLe(0, dayInCycle, tbl)

getYearInCycle(dayInCycle, tbl) == ScanYears(0, dayInCycle, tbl)

RECURSIVE ScanMonths(_, _, _)
ScanMonths(i, dayInYear, tbl) ==
    IF i < 12
    THEN IF dayInYear < tbl[i + 1]
         THEN i + 1
         ELSE ScanMonths(i + 1, dayInYear, tbl)
    ELSE 0

getMonth(dayInYear, tbl) == ScanMonths(0, dayInYear, tbl)

----------------------------------------------------------------------------
(* SdnToTabIslamic *)

\* the range check one day too low: sdn < ISLAMIC_SDN_OFFSET - 1
BeforeEpoch_low(s) == zl_lt(s, ZL(ISLAMIC_SDN_OFFSET - 1))

\* sdn < ISLAMIC_SDN_OFFSET
BeforeEpoch(s) == zl_lt(s, ZL(ISLAMIC_SDN_OFFSET))

NoLocals ==
    [cycleNum |-> ZL(0), yearLong |-> ZL(0), dayInCycle |-> 0,
     yearInCycle |-> 0, dayInYear |-> 0, monthInYear |-> 0]

\* the outputs and the locals of SdnToTabIslamic(s, ...); junk is what a read
\* outside yearEndDays or monthEndDays yields
SdnToTabIslamic(s, junk) ==
    IF BeforeEpoch(s)
    THEN [pYear |-> 0, pMonth |-> 0, pDay |-> 0, locals |-> NoLocals]
    ELSE
      LET offsetJulianDay == zl_sub(s, ZL(ISLAMIC_SDN_OFFSET))
          cycleNum    == zl_div(offsetJulianDay, DAYS_PER_30_YEARS)
          \* a remainder of the division by DAYS_PER_30_YEARS: its low limbs
          \* are its value
          dayInCycle  == zl_int(zl_sub(offsetJulianDay,
                                       zl_mul(cycleNum, DAYS_PER_30_YEARS)))
          yearInCycle == getYearInCycle(dayInCycle, yearEndDays)
          yearLong    == zl_add(zl_mul(cycleNum, 30), ZL(yearInCycle))
          yearBaseDay == IF yearInCycle = 1
                         THEN 0
                         ELSE ReadTable(yearEndDays, yearInCycle - 2, junk)
          dayInYear   == dayInCycle - yearBaseDay
          monthInYear == getMonth(dayInYear, monthEndDays)
          monthBaseDay == IF monthInYear = 1
                          THEN 0
                          ELSE ReadTable(monthEndDays, monthInYear - 2, junk)
          dayInMonth  == (dayInYear - monthBaseDay) + 1
      IN  [pYear  |-> zl_int(yearLong),
           pMonth |-> monthInYear,
           pDay   |-> dayInMonth,
           locals |-> [cycleNum |-> cycleNum, yearLong |-> yearLong,
                       dayInCycle |-> dayInCycle, yearInCycle |-> yearInCycle,
                       dayInYear |-> dayInYear, monthInYear |-> monthInYear]]

----------------------------------------------------------------------------
(* TabIslamicToSdn *)

TabIslamicToSdn(y, m, d) == ZL(0)

----------------------------------------------------------------------------
(* The caller *)

MaxWalk == 11000
MaxYear == 14

\* the cycle in which the year number passes INT_MAX
WrapCycle == INT_MAX \div CALENDAR_CYCLE_YEARS

\* the cycle in which it passes INT_MAX + 2^32
WrapCycle2 == zl_div(zl_add(ZL(INT_MAX), <<0, 0, 1, 0>>), CALENDAR_CYCLE_YEARS)

CycleStart(c) ==
    zl_add(ZL(ISLAMIC_SDN_OFFSET), zl_mul(c, DAYS_PER_30_YEARS))

Bases ==
    { ZEND_LONG_MIN,
      ZL(-3),
      ZL(ISLAMIC_SDN_OFFSET - 3),
      CycleStart(ZL(WrapCycle)),
      CycleStart(WrapCycle2),
      zl_sub(ZEND_LONG_MAX, ZL(MaxWalk)) }

Call(s, r) ==
    [sdn |-> s, pYear |-> r.pYear, pMonth |-> r.pMonth, pDay |-> r.pDay,
     locals |-> r.locals, valid |-> TRUE]

NoCall ==
    [sdn |-> ZL(0), pYear |-> 0, pMonth |-> 0, pDay |-> 0,
     locals |-> NoLocals, valid |-> FALSE]

ThisCall == Call(sdn, [pYear |-> pYear, pMonth |-> pMonth, pDay |-> pDay,
                       locals |-> locals])

Init ==
    /\ pc = "idle"
    /\ sdn = ZL(0)
    /\ pYear = 0 /\ pMonth = 0 /\ pDay = 0
    /\ locals = NoLocals
    /\ prevCall = NoCall
    /\ firstCall = NoCall
    /\ steps = 0
    /\ year = 0 /\ month = 0 /\ day = 0
    /\ idx = 0
    /\ name = ""

\* the outputs of one SdnToTabIslamic(s, &pYear, &pMonth, &pDay)
Convert(s) ==
    \E junk \in JunkLongs :
        LET r == SdnToTabIslamic(s, junk)
        IN  /\ sdn' = s
            /\ pYear' = r.pYear
            /\ pMonth' = r.pMonth
            /\ pDay' = r.pDay
            /\ locals' = r.locals

\* convert a first SDN
FirstDay ==
    /\ pc = "idle"
    /\ \E s \in Bases : Convert(s)
    /\ pc' = "walk"
    /\ prevCall' = NoCall
    /\ firstCall' = Call(sdn', [pYear |-> pYear', pMonth |-> pMonth',
                                pDay |-> pDay', locals |-> locals'])
    /\ steps' = 0
    /\ UNCHANGED <<year, month, day, idx, name>>

\* convert the SDN after the last one
NextDay ==
    /\ pc = "walk"
    /\ steps < MaxWalk
    /\ sdn # ZEND_LONG_MAX
    /\ Convert(zl_add(sdn, ZL(1)))
    /\ prevCall' = ThisCall
    /\ steps' = steps + 1
    /\ UNCHANGED <<pc, firstCall, year, month, day, idx, name>>

\* sdn = TabIslamicToSdn(year, month, day)
DateToSdn ==
    /\ pc = "idle"
    /\ \E y \in 1..MaxYear, m \in 1..12, d \in 1..30 :
        /\ year' = y /\ month' = m /\ day' = d
        /\ sdn' = TabIslamicToSdn(y, m, d)
    /\ pc' = "sdn"
    /\ UNCHANGED <<pYear, pMonth, pDay, locals, prevCall, firstCall, steps,
                   idx, name>>

\* SdnToTabIslamic of the SDN TabIslamicToSdn returned
BackToDate ==
    /\ pc = "sdn"
    /\ Convert(sdn)
    /\ pc' = "back"
    /\ UNCHANGED <<prevCall, firstCall, steps, year, month, day, idx, name>>

\* what reading TabIslamicMonthName[13], one past the array, may yield
JunkNames == {"", "Extra", "?"}

\* name = TabIslamicMonthName[i]
MonthName ==
    /\ pc = "idle"
    /\ \E i \in 0..13 :
        /\ idx' = i
        /\ IF i < Len(TabIslamicMonthName)
           THEN name' = TabIslamicMonthName[i + 1]
           ELSE name' \in JunkNames
    /\ pc' = "name"
    /\ UNCHANGED <<sdn, pYear, pMonth, pDay, locals, prevCall, firstCall,
                   steps, year, month, day>>

Next == FirstDay \/ NextDay \/ DateToSdn \/ BackToDate \/ MonthName

Spec == Init /\ [][Next]_vars

----------------------------------------------------------------------------
TypeOK ==
    /\ pc \in {"idle", "walk", "sdn", "back", "name"}
    /\ IsZendLong(sdn)
    /\ pYear \in (-INT_MAX - 1)..INT_MAX
    /\ IsZendLong(locals.cycleNum)
    /\ IsZendLong(locals.yearLong)
    /\ locals.dayInCycle \in 0..(DAYS_PER_30_YEARS - 1)

----------------------------------------------------------------------------
(* Vocabulary of the properties *)

\* the epoch constant the properties speak of, as a zend_long
Epoch == ZL(1948440)

\* a call whose sdn is at or after the epoch
Supported(c) == c.valid /\ ~zl_lt(c.sdn, Epoch)

\* the last call was a conversion of an SDN at or after the epoch
Converted == pc = "walk" /\ Supported(ThisCall)

\* days in year position k of the cycle: difference of consecutive
\* yearEndDays entries, with an implicit 0 before the first
YearSpan(k) == yearEndDays[k] - (IF k = 1 THEN 0 ELSE yearEndDays[k - 1])

\* days the table gives month m: difference of consecutive monthEndDays entries
MonthSpan(m) == monthEndDays[m] - (IF m = 1 THEN 0 ELSE monthEndDays[m - 1])

\* date a is earlier than date b: year, then month, then day
Earlier(a, b) ==
    \/ a.pYear < b.pYear
    \/ a.pYear = b.pYear /\ a.pMonth < b.pMonth
    \/ a.pYear = b.pYear /\ a.pMonth = b.pMonth /\ a.pDay < b.pDay

\* the leap year positions of the 30-year cycle
LeapPositions == {2, 5, 7, 10, 13, 16, 18, 21, 24, 26, 29}

\* the cycles the year-start property is evaluated at
ClaimCycles ==
    { ZL(0), ZL(1), ZL(WrapCycle), ZL(WrapCycle + 1),
      WrapCycle2, zl_add(WrapCycle2, ZL(1)) }

----------------------------------------------------------------------------
(* C1: every sdn below the epoch constant 1948440 converts to the sentinel  *)
(* (0, 0, 0); in particular 1948439 does.                                   *)
C1_BeforeEpochSentinel ==
    pc \in {"walk", "back"} =>
        /\ zl_lt(sdn, Epoch) => <<pYear, pMonth, pDay>> = <<0, 0, 0>>
        /\ sdn = ZL(1948439) => <<pYear, pMonth, pDay>> = <<0, 0, 0>>

\* the day before the epoch has been converted, in a run of days that began
\* below the epoch
C1_Witness ==
    /\ pc = "walk"
    /\ sdn = ZL(1948439)
    /\ firstCall.sdn = ZL(1948437)
    /\ <<pYear, pMonth, pDay>> = <<0, 0, 0>>

(* C2: for year in 1..14, month in 1..12, day in 1..30, converting the date *)
(* to an SDN and back gives the date again.                                 *)
C2_RoundTrip ==
    pc = "back" => <<pYear, pMonth, pDay>> = <<year, month, day>>

(* C3: the first day of year position k of cycle c, SDN                     *)
(* 1948440 + c*10631 + B(k), converts to (30*c + k, 1, 1), where B(1) = 0   *)
(* and B(k) is the yearEndDays entry of position k-1.                       *)
C3_YearStart ==
    pc = "walk" =>
        \A c \in ClaimCycles, k \in 1..30 :
            LET B == IF k = 1 THEN 0 ELSE yearEndDays[k - 1]
                first == zl_add(zl_add(Epoch, zl_mul(c, 10631)), ZL(B))
            IN  sdn = first =>
                    /\ ZL(pYear) = zl_add(zl_mul(c, 30), ZL(k))
                    /\ pMonth = 1
                    /\ pDay = 1

(* C4: for sdn1 < sdn2, both at or after the epoch, the date of sdn2 is not *)
(* earlier than the date of sdn1 (year, then month, then day).              *)
C4_Monotonic ==
    pc = "walk" =>
        \A a \in {prevCall, firstCall} :
            (Supported(a) /\ Supported(ThisCall) /\ zl_lt(a.sdn, sdn))
                => ~Earlier(ThisCall, a)

(* C5: for every sdn at or after the epoch neither table scan returns 0,    *)
(* and the result has year >= 1, month in 1..12 and day in 1..30.           *)
C5_NoSentinel ==
    Converted =>
        /\ locals.yearInCycle # 0
        /\ locals.monthInYear # 0
        /\ pYear >= 1
        /\ pMonth \in 1..12
        /\ pDay \in 1..30

C8_MonthNames ==
    pc = "name" =>
        /\ idx = 0 => name = ""
        /\ idx \in 1..12 => name \notin {"", "Extra"}
        /\ idx = 1 => name = "Vendemiaire"
        /\ idx = 13 => name = "Extra"

C10_OneDayStep ==
    (Converted /\ Supported(prevCall)) =>
        LET y == prevCall.pYear
            m == prevCall.pMonth
            d == prevCall.pDay
        IN  /\ \/ pYear = y /\ pMonth = m /\ pDay = d + 1
               \/ pYear = y /\ pMonth = m + 1 /\ pDay = 1 /\ m < 12
               \/ ZL(pYear) = zl_add(ZL(y), ZL(1))
                    /\ pMonth = 1 /\ pDay = 1 /\ m = 12
            /\ \A a \in {prevCall, firstCall} :
                   (Supported(a) /\ a.sdn # sdn)
                       => <<a.pYear, a.pMonth, a.pDay>> # <<pYear, pMonth, pDay>>

====
